---------------------------- MODULE Spec2Model ----------------------------
(***************************************************************************)
(* Model of Loggy's os_log shims (Loggy/Logging/os_log_shims.c/.h):        *)
(* the fixed-capacity command-stream encoder and the send entry point.     *)
(*                                                                         *)
(* The encoder is the C struct loggy_os_log_encoder_s: a byte array ob_b   *)
(* of LOGGY_OS_LOG_ENCODER_BUF_SIZE bytes and a cursor ob_len.  The first  *)
(* two bytes are the header os_log_fmt_hdr_s (hdr_flags, hdr_cmd_cnt).     *)
(* Data layout is the one of the LP64 little-endian targets the library    *)
(* is built for: size_t and pointers are 8 bytes wide, bit-fields are      *)
(* allocated from the least significant bit.                               *)
(***************************************************************************)
EXTENDS Integers, Sequences, FiniteSets

VARIABLES
    ob_b,      \* encoder->ob_b (see ZeroBuf)
    ob_len,    \* encoder->ob_len
    log,       \* history: the commands the callers asked to append, in order
    last,      \* history: the last call and the encoder fields before it
    calls,     \* history: number of adder / encode calls made so far
    tail,      \* history: number of calls made after the filler run
    backend,   \* history: the backend primitives invoked so far, in order
    blob,      \* an os_log_blob_s and the storage its ob_b points to
    bl,        \* history: the last blob call, the blob before it, what was released
    pc         \* the process: "running", or "killed" by a signal

vars == <<ob_b, ob_len, log, last, calls, tail, backend, blob, bl, pc>>

----------------------------------------------------------------------------
(* Program constants *)

LOGGY_OS_LOG_ENCODER_MAX_COMMANDS == 48

\* the buffer sized for the header and the tags alone, without payloads
LOGGY_OS_LOG_ENCODER_BUF_SIZE_tags_only == 2 + 2 * LOGGY_OS_LOG_ENCODER_MAX_COMMANDS

LOGGY_OS_LOG_ENCODER_BUF_SIZE == 2 + (2 + 16) * LOGGY_OS_LOG_ENCODER_MAX_COMMANDS

OSLF_HDR_FLAG_HAS_NON_SCALAR == 2

OSLF_CMD_TYPE_SCALAR == 0

OSLF_CMD_TYPE_OBJECT == 4

SizeofHdr == 2

SizeofCmd == 2

SizeofInt32 == 4

SizeofInt64 == 8

SizeofSizeT == 8

SizeofInt == 4

SizeofDouble == 8

SizeofPtr == 8

----------------------------------------------------------------------------
(* Bounds of the model *)

\* calls at the start of a run that may be any adder
MaxHead == 1

\* calls of the filler run add_int32(FillValue) that follows the head
MaxFill == 50

\* calls after the filler run that may be any adder
MaxTail == 1

\* direct calls of encode in SpecEncode
MaxEncodeCalls == 3

\* direct calls of encode in SpecEncodeCmd
MaxCmdEncodeCalls == 4

\* adder calls and sends in SpecSend
MaxSendCalls == 2

MaxSends == 2

\* calls of os_trace_blob_add in SpecBlob
MaxBlobAdds == 3

----------------------------------------------------------------------------
(* Byte representations of the C values handed to encode (memcpy of the     *)
(* object representation, little-endian two's complement).                  *)

Byte == 0 .. 255

\* byte i (0 = least significant) of a w-byte integer whose value v lies in
\* the int32 range: the low four bytes are v's, the rest its sign extension.
LEByte(v, i) == IF i < 4 THEN (v \div (256 ^ i)) % 256
                ELSE IF v < 0 THEN 255 ELSE 0

LEBytes(v, w) == [i \in 1 .. w |-> LEByte(v, i - 1)]

\* a double is given by its IEEE-754 bit pattern, as two 32-bit halves
DoubleBytes(d) == [i \in 1 .. SizeofDouble |->
                     IF i <= 4 THEN LEByte(d.lo, i - 1) ELSE LEByte(d.hi, i - 5)]

----------------------------------------------------------------------------
(* The encoder *)

\* The array ob_b is held as its bytes up to the highest one ever stored:
\* <<b[0], ..., b[n-1]>>; the bytes above are those of the zeroed struct.
\* ByteAt is for offsets within the array only.
ZeroBuf == [i \in {} |-> 0]

ByteAt(b, i) == IF i \in DOMAIN b THEN b[i] ELSE 0

hdr_flags(b) == ByteAt(b, 0)

hdr_cmd_cnt(b) == ByteAt(b, 1)

Max(a, b) == IF a >= b THEN a ELSE b

Min(a, b) == IF a <= b THEN a ELSE b

\* What stands for the bytes after a store that is not within the array:
\* the behaviour of the program is undefined from there on (see Called).
UndefinedBuf == [i \in {-1} |-> -1]

\* memcpy(b + off, data, n).  The destination has to lie within the array:
\* forming b + off with off above the array's size, or storing past its
\* end, is undefined behaviour.
Memcpy(b, off, data, n) ==
    IF b = UndefinedBuf \/ off + n > LOGGY_OS_LOG_ENCODER_BUF_SIZE
    THEN UndefinedBuf
    ELSE LET top == Max(Cardinality(DOMAIN b), off + n)
         IN  [i \in 0 .. top - 1 |->
                IF i >= off /\ i < off + n THEN data[i - off + 1] ELSE ByteAt(b, i)]

\* the encoder after a call whose behaviour is undefined
Undefined == [ob_b |-> UndefinedBuf, ob_len |-> -1]

\* the tag with cmd_size counting the tag itself as well as the payload
CmdBytes_size_with_tag(flags, type, size) ==
    <<(flags % 16) + 16 * (type % 16), (size + SizeofCmd) % 256>>

\* os_log_fmt_cmd_s: cmd_flags in the low nibble, cmd_type in the high
\* nibble of the first byte, cmd_size (uint8_t) in the second
CmdBytes(flags, type, size) == <<(flags % 16) + 16 * (type % 16), size % 256>>

\* lines 49-52 without the test of ob_len: every call starts the stream over
encode_init_always(ob) ==
    [ob_b   |-> Memcpy(ob.ob_b, 0, <<0, 0>>, SizeofHdr),
     ob_len |-> SizeofHdr]

\* lines 49-52: the header is zeroed when ob_len is 0
encode_init(ob) ==
    IF ob.ob_len = 0
    THEN [ob_b   |-> Memcpy(ob.ob_b, 0, <<0, 0>>, SizeofHdr),
          ob_len |-> SizeofHdr]
    ELSE ob

\* line 54 and the right half of line 56:
\*   uint32_t avail = BUF_SIZE - ob_len;  avail < sizeof(cmd) + size
\* The difference is unsigned: were ob_len above BUF_SIZE it would wrap to a
\* value near 2^32, above every sizeof(cmd) + size of the model.
avail_lt(len, need) ==
    IF len <= LOGGY_OS_LOG_ENCODER_BUF_SIZE
    THEN LOGGY_OS_LOG_ENCODER_BUF_SIZE - len < need
    ELSE FALSE

\* condition of line 56 with the capacity test left out
encode_rejects_count_only(ob, size) ==
    hdr_cmd_cnt(ob.ob_b) > LOGGY_OS_LOG_ENCODER_MAX_COMMANDS

\* line 56
encode_rejects(ob, size) ==
    \/ hdr_cmd_cnt(ob.ob_b) > LOGGY_OS_LOG_ENCODER_MAX_COMMANDS
    \/ avail_lt(ob.ob_len, SizeofCmd + size)

\* lines 60-70 with the first "ob_len +=" (line 67) left out
encode_write_no_tag_advance(ob, type, data, size) ==
    LET b1 == Memcpy(ob.ob_b, ob.ob_len, CmdBytes(0, type, size), SizeofCmd)
        b2 == Memcpy(b1, ob.ob_len, data, size)
    IN  IF b2 = UndefinedBuf THEN Undefined
        ELSE [ob_b |-> b2, ob_len |-> ob.ob_len + size]

\* lines 60-70: the tag, then the payload, each followed by "ob_len +="
encode_write(ob, type, data, size) ==
    LET b1 == Memcpy(ob.ob_b, ob.ob_len, CmdBytes(0, type, size), SizeofCmd)
        b2 == Memcpy(b1, ob.ob_len + SizeofCmd, data, size)
    IN  IF b2 = UndefinedBuf THEN Undefined
        ELSE [ob_b |-> b2, ob_len |-> ob.ob_len + SizeofCmd + size]

\* b[0] |= bit
OrFlag(b, bit) ==
    IF (hdr_flags(b) \div bit) % 2 = 1 THEN b
    ELSE [b EXCEPT ![0] = hdr_flags(b) + bit]

\* lines 72-74 without the assignment
encode_flags_never(b, type) == b

\* lines 72-74 without the test of the type
encode_flags_always(b, type) == OrFlag(b, OSLF_HDR_FLAG_HAS_NON_SCALAR)

\* lines 72-74
encode_flags(b, type) ==
    IF type = OSLF_CMD_TYPE_OBJECT
    THEN OrFlag(b, OSLF_HDR_FLAG_HAS_NON_SCALAR)
    ELSE b

\* line 76: hdr_cmd_cnt is a uint8_t
encode_count(b) == [b EXCEPT ![1] = (hdr_cmd_cnt(b) + 1) % 256]

\* lines 47-77 with "hdr_cmd_cnt += 1" (line 76) ahead of the test of line 56
encode_counts_rejected(ob, type, data, size) ==
    LET o1 == encode_init(ob)
        c1 == [ob_b |-> encode_count(o1.ob_b), ob_len |-> o1.ob_len]
        o2 == encode_write(c1, type, data, size)
    IN  IF ob = Undefined THEN Undefined
        ELSE IF encode_rejects(o1, size) THEN c1
        ELSE IF o2 = Undefined THEN Undefined
        ELSE [ob_b |-> encode_flags(o2.ob_b, type), ob_len |-> o2.ob_len]

\* lines 47-77.  A call made after undefined behaviour, or one whose stores
\* do not lie within the array, has undefined behaviour.
encode(ob, type, data, size) ==
    LET o1 == encode_init(ob)
        o2 == encode_write(o1, type, data, size)
    IN  IF ob = Undefined THEN Undefined
        ELSE IF encode_rejects(o1, size) THEN o1
        ELSE IF o2 = Undefined THEN Undefined
        ELSE [ob_b   |-> encode_count(encode_flags(o2.ob_b, type)),
              ob_len |-> o2.ob_len]

\* history: one past the highest offset of ob_b that encode stores to
encode_top(ob, size) ==
    LET o1 == encode_init(ob)
    IN  IF encode_rejects(o1, size)
        THEN (IF ob.ob_len = 0 THEN SizeofHdr ELSE 0)
        ELSE o1.ob_len + SizeofCmd + size

\* history: the ob_len that line 54 subtracts from the buffer size
encode_sub(ob) == encode_init(ob).ob_len

loggy_os_log_encoder_add_int32(ob, value) ==
    encode(ob, OSLF_CMD_TYPE_SCALAR, LEBytes(value, SizeofInt32), SizeofInt32)

loggy_os_log_encoder_add_int64(ob, value) ==
    encode(ob, OSLF_CMD_TYPE_SCALAR, LEBytes(value, SizeofInt64), SizeofInt64)

loggy_os_log_encoder_add_int(ob, value) ==
    encode(ob, OSLF_CMD_TYPE_SCALAR, LEBytes(value, SizeofSizeT), SizeofSizeT)

loggy_os_log_encoder_add_double(ob, value, precision) ==
    encode(encode(ob, OSLF_CMD_TYPE_SCALAR, LEBytes(precision, SizeofInt), SizeofInt),
           OSLF_CMD_TYPE_SCALAR, DoubleBytes(value), SizeofDouble)

loggy_os_log_encoder_add_object(ob, value) ==
    encode(ob, OSLF_CMD_TYPE_OBJECT, LEBytes(value, SizeofPtr), SizeofPtr)

----------------------------------------------------------------------------
(* The growable blob of os_log_shims_private.h *)

OS_TRACE_BLOB_NEEDS_FREE == 1

OS_TRACE_BLOB_TRUNCATED == 2

\* a byte of storage that nothing has stored to yet
Uninit == -1

HasBit(flags, bit) == (flags \div bit) % 2 = 1

SetBit(flags, bit) == IF HasBit(flags, bit) THEN flags ELSE flags + bit

\* A uint32_t is held as two 16-bit halves, its value being
\* hi * 2^16 + lo: the values from 2^31 up are beyond the model checker's
\* integers.
Half == 2 ^ 16

\* (uint32_t)d for -2^31 <= d < 2^31: a negative d wraps to d + 2^32
U32(d) ==
    IF d >= 0
    THEN [hi |-> d \div Half, lo |-> d % Half]
    ELSE LET e == (d + 2147483647) + 1
         IN  [hi |-> (Half \div 2) + (e \div Half), lo |-> e % Half]

\* u < n and u <= n, for a uint32_t u and 0 <= n < 2^31
U32Lt(u, n) == u.hi < Half \div 2 /\ u.hi * Half + u.lo < n

U32Le(u, n) == u.hi < Half \div 2 /\ u.hi * Half + u.lo <= n

\* min(n, u), for a uint32_t u and 0 <= n < 2^31
U32Min(n, u) == IF U32Lt(u, n) THEN u.hi * Half + u.lo ELSE n

\* a blob over caller-supplied inline storage of k bytes; ob_at tells which
\* storage ob_b points to, ob_b holds that storage's bytes
NewBlob(k, maxsize, binary) ==
    [ob_b       |-> [i \in 0 .. k - 1 |-> Uninit],
     ob_at      |-> "inline",
     ob_len     |-> 0,
     ob_size    |-> k,
     ob_maxsize |-> maxsize,
     ob_flags   |-> 0,
     ob_binary  |-> binary]

NotBinary(ob) == IF ob.ob_binary THEN 0 ELSE 1

\* lines 37-39 without the byte reserved for the terminator
blob_available_no_nul(ob) == U32(ob.ob_size - ob.ob_len)

\* lines 37-39
_os_trace_blob_available(ob) == U32(ob.ob_size - NotBinary(ob) - ob.ob_len)

\* memcpy(ob_b + off, data, n) into storage of ob_size bytes.  A store that
\* does not lie within the storage is undefined behaviour.
BlobMemcpy(b, off, data, n) ==
    IF b = UndefinedBuf \/ n > Cardinality(DOMAIN b) - off
    THEN UndefinedBuf
    ELSE [i \in DOMAIN b |->
            IF i >= off /\ i < off + n THEN data[i - off + 1] ELSE b[i]]

\* the blob after a call whose behaviour is undefined (see BlobAdd)
BlobUndefined(ob) == ob.ob_b = UndefinedBuf

\* lines 41-45: the blob after the call; the value returned is extra
_os_trace_blob_growlen(ob, extra) ==
    IF BlobUndefined(ob) THEN ob
    ELSE LET len == ob.ob_len + extra
             b   == IF ob.ob_binary THEN ob.ob_b
                    ELSE BlobMemcpy(ob.ob_b, len, <<0>>, 1)
         IN  IF b = UndefinedBuf THEN [ob EXCEPT !.ob_b = b]
             ELSE [ob EXCEPT !.ob_len = len, !.ob_b = b]

\* lines 49-51
os_trace_blob_is_empty(ob) == ob.ob_len = 0

\* os_trace_blob_destroy_slow, declared at line 53: releases the heap buffer
os_trace_blob_destroy_slow(ob) == [released |-> {ob.ob_at}]

\* lines 55-59 without the test of NEEDS_FREE
os_trace_blob_destroy_always(ob) == os_trace_blob_destroy_slow(ob)

\* lines 55-59: the storage released
os_trace_blob_destroy(ob) ==
    IF HasBit(ob.ob_flags, OS_TRACE_BLOB_NEEDS_FREE)
    THEN os_trace_blob_destroy_slow(ob)
    ELSE [released |-> {}]

\* line 70 with >= in place of >
blob_needs_slow_ge(ob, size) == U32Le(_os_trace_blob_available(ob), size)

\* line 70: the bytes do not fit in what is available
blob_needs_slow(ob, size) == U32Lt(_os_trace_blob_available(ob), size)

\* os_trace_blob_add_slow, declared at line 63: grow the storage to fit, up
\* to ob_maxsize, into a heap buffer marked NEEDS_FREE; if the bytes still do
\* not fit, copy what fits and mark the blob TRUNCATED
os_trace_blob_add_slow(ob, ptr, size) ==
    LET want  == Min(ob.ob_maxsize, ob.ob_len + NotBinary(ob) + size)
        grown == IF want > ob.ob_size
                 THEN [ob EXCEPT
                         !.ob_b = [i \in 0 .. want - 1 |->
                                     IF i < ob.ob_size THEN ob.ob_b[i] ELSE Uninit],
                         !.ob_at = "heap",
                         !.ob_size = want,
                         !.ob_flags = SetBit(ob.ob_flags, OS_TRACE_BLOB_NEEDS_FREE)]
                 ELSE ob
        avail == _os_trace_blob_available(grown)
        n     == U32Min(size, avail)
        cut   == IF U32Lt(avail, size)
                 THEN [grown EXCEPT
                         !.ob_flags = SetBit(grown.ob_flags, OS_TRACE_BLOB_TRUNCATED)]
                 ELSE grown
        done  == [cut EXCEPT !.ob_b = BlobMemcpy(cut.ob_b, cut.ob_len, ptr, n)]
    IN  [ob |-> _os_trace_blob_growlen(done, n), ret |-> n, path |-> "slow"]

\* lines 65-76 without the test of TRUNCATED
os_trace_blob_add_no_truncated_test(ob, ptr, size) ==
    IF blob_needs_slow(ob, size)
    THEN os_trace_blob_add_slow(ob, ptr, size)
    ELSE [ob   |-> _os_trace_blob_growlen(
                      [ob EXCEPT !.ob_b = BlobMemcpy(ob.ob_b, ob.ob_len, ptr, size)],
                      size),
          ret  |-> size,
          path |-> "fast"]

\* lines 65-76: the blob after the call, the value returned, the path taken
os_trace_blob_add(ob, ptr, size) ==
    IF HasBit(ob.ob_flags, OS_TRACE_BLOB_TRUNCATED)
    THEN [ob |-> ob, ret |-> 0, path |-> "truncated"]
    ELSE IF blob_needs_slow(ob, size)
    THEN os_trace_blob_add_slow(ob, ptr, size)
    ELSE [ob   |-> _os_trace_blob_growlen(
                      [ob EXCEPT !.ob_b = BlobMemcpy(ob.ob_b, ob.ob_len, ptr, size)],
                      size),
          ret  |-> size,
          path |-> "fast"]

----------------------------------------------------------------------------
(* Inputs *)

Int32Values == {42}

\* the int32 value of the filler run
FillValue == CHOOSE v \in Int32Values : TRUE

Int64Values == {-2}

SizeTValues == {258}

\* 3.14 = 0x40091EB851EB851F
DoubleValues == {[hi |-> 1074339512, lo |-> 1374389535]}

Precisions == {2}

Pointers == {4096}

----------------------------------------------------------------------------
(* State machine of the public adders *)

Enc == [ob_b |-> ob_b, ob_len |-> ob_len]

Cmd(type, data, size) == [type |-> type, flags |-> 0, size |-> size, payload |-> data]

\* blobs as their callers make them: inline storage of k bytes, a ceiling
\* of at least k, binary or a C string (k leaves room for the terminator)
InlineSizes == {4}

MaxSizes == {4, 8}

BlobConfigs ==
    {NewBlob(c[1], c[2], c[3]) :
        c \in {x \in InlineSizes \X MaxSizes \X BOOLEAN : x[2] >= x[1]}}

NoBlobCall(ob) ==
    [op |-> "none", size |-> 0, ret |-> 0, path |-> "none", pre |-> ob,
     k |-> ob.ob_size, adds |-> 0, slow |-> 0, total |-> 0, released |-> {},
     destroyed |-> FALSE, empty |-> TRUE]

Init ==
    /\ ob_b = ZeroBuf
    /\ ob_len = 0
    /\ log = <<>>
    /\ last = [op |-> "none", pre_len |-> 0, pre_cnt |-> 0, pre_flags |-> 0,
               size |-> 0, top |-> 0, sub |-> 0,
               ev |-> 0, avail |-> FALSE, ra |-> "none"]
    /\ calls = 0
    /\ tail = 0
    /\ backend = <<>>
    /\ blob = CHOOSE c \in BlobConfigs : c.ob_binary /\ c.ob_maxsize = c.ob_size
    /\ bl = NoBlobCall(blob)
    /\ pc = "running"

\* A run of Spec is: at most MaxHead calls of any adder, then at most MaxFill
\* calls add_int32(FillValue), then at most MaxTail calls of any adder.
TailStep(isFill) ==
    /\ calls >= MaxHead
    /\ ~(isFill /\ tail = 0 /\ calls < MaxHead + MaxFill)

Script(isFill) ==
    /\ TailStep(isFill) => tail < MaxTail
    /\ tail' = IF TailStep(isFill) THEN tail + 1 ELSE tail
    /\ calls' = calls + 1

\* The effect of one call on the encoder and on the history.  When the
\* call's behaviour is undefined the build decides what happens: the process
\* is killed by a signal at the store, or it goes on with the stores landed
\* in the bytes after the array (the struct's padding and its ob_len field)
\* or outside the encoder.  In the second case pc is "undefined": ob_b and
\* ob_len then stand for any values, and no further call is modelled.
Called(op, o2, cmds, top, sub) ==
    /\ pc = "running"
    /\ IF o2 = Undefined
       THEN /\ pc' \in {"killed", "undefined"}
            /\ UNCHANGED <<ob_b, ob_len>>
       ELSE /\ pc' = "running"
            /\ ob_b' = o2.ob_b
            /\ ob_len' = o2.ob_len
    /\ log' = log \o cmds
    /\ last' = [op |-> op, pre_len |-> ob_len,
                pre_cnt |-> hdr_cmd_cnt(ob_b), pre_flags |-> hdr_flags(ob_b),
                size |-> cmds[1].size, top |-> top, sub |-> sub,
                ev |-> Len(backend), avail |-> FALSE, ra |-> "none"]
    /\ UNCHANGED <<backend, blob, bl>>

AddInt32 ==
    \E v \in Int32Values :
        /\ Script(v = FillValue)
        /\ Called("add_int32", loggy_os_log_encoder_add_int32(Enc, v),
                  <<Cmd(OSLF_CMD_TYPE_SCALAR, LEBytes(v, SizeofInt32), SizeofInt32)>>,
                  encode_top(Enc, SizeofInt32), encode_sub(Enc))

AddInt64 ==
    \E v \in Int64Values :
        /\ Script(FALSE)
        /\ Called("add_int64", loggy_os_log_encoder_add_int64(Enc, v),
                  <<Cmd(OSLF_CMD_TYPE_SCALAR, LEBytes(v, SizeofInt64), SizeofInt64)>>,
                  encode_top(Enc, SizeofInt64), encode_sub(Enc))

AddInt ==
    \E v \in SizeTValues :
        /\ Script(FALSE)
        /\ Called("add_int", loggy_os_log_encoder_add_int(Enc, v),
                  <<Cmd(OSLF_CMD_TYPE_SCALAR, LEBytes(v, SizeofSizeT), SizeofSizeT)>>,
                  encode_top(Enc, SizeofSizeT), encode_sub(Enc))

AddDouble ==
    \E v \in DoubleValues, p \in Precisions :
        LET o1 == encode(Enc, OSLF_CMD_TYPE_SCALAR, LEBytes(p, SizeofInt), SizeofInt)
        IN  /\ Script(FALSE)
            /\ Called("add_double", loggy_os_log_encoder_add_double(Enc, v, p),
                      <<Cmd(OSLF_CMD_TYPE_SCALAR, LEBytes(p, SizeofInt), SizeofInt),
                        Cmd(OSLF_CMD_TYPE_SCALAR, DoubleBytes(v), SizeofDouble)>>,
                      Max(encode_top(Enc, SizeofInt), encode_top(o1, SizeofDouble)),
                      Max(encode_sub(Enc), encode_sub(o1)))

AddObject ==
    \E v \in Pointers :
        /\ Script(FALSE)
        /\ Called("add_object", loggy_os_log_encoder_add_object(Enc, v),
                  <<Cmd(OSLF_CMD_TYPE_OBJECT, LEBytes(v, SizeofPtr), SizeofPtr)>>,
                  encode_top(Enc, SizeofPtr), encode_sub(Enc))

Next == AddInt32 \/ AddInt64 \/ AddInt \/ AddDouble \/ AddObject

Spec == Init /\ [][Next]_vars

----------------------------------------------------------------------------
(* State machine of encode called directly, with any type and size *)

EncodeTypes == {OSLF_CMD_TYPE_SCALAR, OSLF_CMD_TYPE_OBJECT}

\* the largest value of the uint8_t cmd_size
CmdSizeMax == 2 ^ 8 - 1

\* the payload that ends on the last byte of the buffer after three
\* commands of CmdSizeMax bytes
LastFit ==
    LOGGY_OS_LOG_ENCODER_BUF_SIZE - SizeofHdr - 3 * (SizeofCmd + CmdSizeMax) - SizeofCmd

EncodeSizes == {0, 8, 256, 862, 865}

Data(n) == [i \in 1 .. n |-> i % 256]

Encode ==
    \E t \in EncodeTypes, n \in EncodeSizes :
        /\ calls < MaxEncodeCalls
        /\ calls' = calls + 1
        /\ UNCHANGED tail
        /\ Called("encode", encode(Enc, t, Data(n), n), <<Cmd(t, Data(n), n)>>,
                  encode_top(Enc, n), encode_sub(Enc))

NextEncode == Encode

SpecEncode == Init /\ [][NextEncode]_vars

----------------------------------------------------------------------------
(* State machine of encode called directly with the sizes a command can    *)
(* carry: cmd_size is a uint8_t, so a payload is at most 255 bytes.  The    *)
(* sizes are picked to fill the buffer: three commands of 255 bytes leave   *)
(* room for exactly one of 91.                                              *)

CmdSizes == {0, SizeofPtr, LastFit, CmdSizeMax}

EncodeCmd ==
    \E t \in EncodeTypes, n \in CmdSizes :
        /\ calls < MaxCmdEncodeCalls
        /\ calls' = calls + 1
        /\ UNCHANGED tail
        /\ Called("encode", encode(Enc, t, Data(n), n), <<Cmd(t, Data(n), n)>>,
                  encode_top(Enc, n), encode_sub(Enc))

NextEncodeCmd == EncodeCmd

SpecEncodeCmd == Init /\ [][NextEncodeCmd]_vars

----------------------------------------------------------------------------
(* The backend primitives that loggy_os_log_send calls.  They are the       *)
(* operating system's; what is modelled is their contract: the pack is the  *)
(* fixed os_log_pack_s header followed by the command bytes.                *)

\* offsetof(os_log_pack_s, olp_data)
SizeofPack == 48

\* the value _os_log_pack_fill leaves in olp_pc
FillPc == "pc_of_fill"

_os_log_pack_size(n) == SizeofPack + n

\* the pack in buf after _os_log_pack_fill(buf, size, saved_errno, dso, fmt);
\* the cursor it returns is olp_data
_os_log_pack_fill(size, saved_errno, dso, fmt) ==
    [size       |-> size,
     olp_mh     |-> dso,
     olp_pc     |-> FillPc,
     olp_format |-> fmt,
     errno      |-> saved_errno,
     olp_data   |-> [i \in 1 .. size - SizeofPack |-> Uninit]]

\* the bytes ob_b[0, n).  A read of n bytes with n above the array's size
\* runs past ob_b: undefined behaviour, what is read there is the build's
\* (the struct's padding, its ob_len field, then memory outside the encoder).
EncoderBytes(ob, n) ==
    IF n > LOGGY_OS_LOG_ENCODER_BUF_SIZE
    THEN UndefinedBuf
    ELSE [i \in 1 .. n |-> ByteAt(ob.ob_b, i - 1)]

\* what stands for the rest of a send from the point where its behaviour is
\* undefined
UndefinedEvents == <<[fn |-> "undefined"]>>

\* the send ran into undefined behaviour
IsUndefined(evs) == evs # <<>> /\ evs[Len(evs)].fn = "undefined"

\* the backend calls made before that point
Defined(evs) == IF IsUndefined(evs) THEN SubSeq(evs, 1, Len(evs) - 1) ELSE evs

\* the encoder's bytes cannot be read within the array
Overreads(ob) == EncoderBytes(ob, ob.ob_len) = UndefinedBuf

\* memcpy(ptr, src, n) into the region at the cursor; room is the region's size
MemcpyPack(region, src, n) ==
    [i \in 1 .. Max(Len(region), n) |-> IF i <= n THEN src[i] ELSE region[i]]

EvSize(n, ret) == [fn |-> "_os_log_pack_size", n |-> n, ret |-> ret]

EvFill(size, saved_errno, dso, fmt) ==
    [fn |-> "_os_log_pack_fill", size |-> size, errno |-> saved_errno,
     dso |-> dso, fmt |-> fmt]

EvSend(pack, h, type) == [fn |-> "os_log_pack_send", pack |-> pack, h |-> h, type |-> type]

EvImpl(dso, h, type, fmt, buf, len) ==
    [fn |-> "_os_log_impl", dso |-> dso, h |-> h, type |-> type, fmt |-> fmt,
     buf |-> buf, len |-> len]

\* lines 123-128 with the return address stored before the fill
send_packed_ra_before_fill(ob, fmt, h, type, ra, dso) ==
    LET sz == _os_log_pack_size(ob.ob_len)
        p1 == _os_log_pack_fill(sz, 0, dso, fmt)
        p2 == [p1 EXCEPT !.olp_data = MemcpyPack(p1.olp_data,
                                                 EncoderBytes(ob, ob.ob_len), ob.ob_len)]
    IN  IF Overreads(ob)
        THEN <<EvSize(ob.ob_len, sz), EvFill(sz, 0, dso, fmt)>> \o UndefinedEvents
        ELSE <<EvSize(ob.ob_len, sz), EvFill(sz, 0, dso, fmt), EvSend(p2, h, type)>>

\* lines 123-128: the backend calls made, in order
send_packed(ob, fmt, h, type, ra, dso) ==
    LET sz == _os_log_pack_size(ob.ob_len)
        p1 == _os_log_pack_fill(sz, 0, dso, fmt)
        p2 == [p1 EXCEPT !.olp_pc = ra]
        p3 == [p2 EXCEPT !.olp_data = MemcpyPack(p2.olp_data,
                                                 EncoderBytes(ob, ob.ob_len), ob.ob_len)]
    IN  IF Overreads(ob)
        THEN <<EvSize(ob.ob_len, sz), EvFill(sz, 0, dso, fmt)>> \o UndefinedEvents
        ELSE <<EvSize(ob.ob_len, sz), EvFill(sz, 0, dso, fmt), EvSend(p3, h, type)>>

\* line 130
send_legacy(ob, fmt, h, type, ra, dso) ==
    IF Overreads(ob) THEN UndefinedEvents
    ELSE <<EvImpl(dso, h, type, fmt, EncoderBytes(ob, ob.ob_len), ob.ob_len)>>

\* lines 121-132 with the else branch taken unconditionally
loggy_os_log_send_no_else(ob, fmt, h, type, ra, dso, available) ==
    IF Overreads(ob) THEN UndefinedEvents
    ELSE (IF available THEN send_packed(ob, fmt, h, type, ra, dso) ELSE <<>>)
            \o send_legacy(ob, fmt, h, type, ra, dso)

\* lines 121-132 with sizeof(encoder->ob_b) in place of encoder->ob_len
loggy_os_log_send_whole_buffer(ob, fmt, h, type, ra, dso, available) ==
    LET o == [ob EXCEPT !.ob_len = LOGGY_OS_LOG_ENCODER_BUF_SIZE]
    IN  IF available
        THEN send_packed(o, fmt, h, type, ra, dso)
        ELSE send_legacy(o, fmt, h, type, ra, dso)

\* lines 121-132; available is the outcome of __builtin_available
loggy_os_log_send(ob, fmt, h, type, ra, dso, available) ==
    IF available
    THEN send_packed(ob, fmt, h, type, ra, dso)
    ELSE send_legacy(ob, fmt, h, type, ra, dso)

\* the pack in buf after
\* _os_signpost_pack_fill(buf, size, saved_errno, dso, fmt, spnm, spid);
\* the cursor it returns is olp_data
_os_signpost_pack_fill(size, saved_errno, dso, fmt, spnm, spid) ==
    [size       |-> size,
     olp_mh     |-> dso,
     olp_pc     |-> FillPc,
     olp_format |-> fmt,
     errno      |-> saved_errno,
     spnm       |-> spnm,
     spid       |-> spid,
     olp_data   |-> [i \in 1 .. size - SizeofPack |-> Uninit]]

EvSpFill(size, saved_errno, dso, fmt, spnm, spid) ==
    [fn |-> "_os_signpost_pack_fill", size |-> size, errno |-> saved_errno,
     dso |-> dso, fmt |-> fmt, spnm |-> spnm, spid |-> spid]

EvSpSend(pack, h, spty) ==
    [fn |-> "_os_signpost_pack_send", pack |-> pack, h |-> h, spty |-> spty]

\* lines 142-149 with the fill of the plain log pack (line 125) in place of
\* the signpost fill
loggy_os_signpost_send_plain_fill(ob, fmt, h, spty, spnm, spid, ra, dso) ==
    LET sz == _os_log_pack_size(ob.ob_len)
        p1 == _os_log_pack_fill(sz, 0, dso, fmt)
        p2 == [p1 EXCEPT !.olp_pc = ra]
        p3 == [p2 EXCEPT !.olp_data = MemcpyPack(p2.olp_data,
                                                 EncoderBytes(ob, ob.ob_len), ob.ob_len)]
    IN  IF Overreads(ob)
        THEN <<EvSize(ob.ob_len, sz), EvFill(sz, 0, dso, fmt)>> \o UndefinedEvents
        ELSE <<EvSize(ob.ob_len, sz), EvFill(sz, 0, dso, fmt), EvSpSend(p3, h, spty)>>

\* lines 142-149: the backend calls made, in order
loggy_os_signpost_send(ob, fmt, h, spty, spnm, spid, ra, dso) ==
    LET sz == _os_log_pack_size(ob.ob_len)
        p1 == _os_signpost_pack_fill(sz, 0, dso, fmt, spnm, spid)
        p2 == [p1 EXCEPT !.olp_pc = ra]
        p3 == [p2 EXCEPT !.olp_data = MemcpyPack(p2.olp_data,
                                                 EncoderBytes(ob, ob.ob_len), ob.ob_len)]
    IN  IF Overreads(ob)
        THEN <<EvSize(ob.ob_len, sz), EvSpFill(sz, 0, dso, fmt, spnm, spid)>>
                \o UndefinedEvents
        ELSE <<EvSize(ob.ob_len, sz), EvSpFill(sz, 0, dso, fmt, spnm, spid),
              EvSpSend(p3, h, spty)>>

\* the encoder after a send that starts it over for the next statement
send_encoder_consumed(ob) == [ob_b |-> ob.ob_b, ob_len |-> 0]

\* lines 121-132 and 142-149: the encoder after either send; both only read
\* encoder->ob_len and encoder->ob_b
send_encoder(ob) == ob

----------------------------------------------------------------------------
(* State machine of adders and sends *)

Formats == {"%d %f"}

Logs == {"OS_LOG_DEFAULT"}

LogTypes == {"OS_LOG_TYPE_INFO"}

ReturnAddresses == {"ra_of_caller"}

Dsos == {"dso_of_caller"}

Transmissions == {"os_log_pack_send", "_os_log_impl"}

Sends == Cardinality({i \in DOMAIN backend : backend[i].fn \in Transmissions})

Signposts == Cardinality({i \in DOMAIN backend : backend[i].fn = "_os_signpost_pack_send"})

SignpostTypes == {"OS_SIGNPOST_EVENT"}

SignpostNames == {"spnm_of_caller"}

SignpostIds == {1, 7}

\* The effect of one send.  A send that reads past ob_b has undefined
\* behaviour from that read on: the backend calls made before it are
\* recorded, then, as in Called, the process is killed or goes on in a state
\* the model says nothing about.
Sent(evs) ==
    /\ pc = "running"
    /\ Sends + Signposts < MaxSends
    /\ IF IsUndefined(evs)
       THEN /\ pc' \in {"killed", "undefined"}
            /\ backend' = backend \o Defined(evs)
            /\ UNCHANGED <<ob_b, ob_len>>
       ELSE /\ pc' = "running"
            /\ backend' = backend \o evs
            /\ ob_b' = send_encoder(Enc).ob_b
            /\ ob_len' = send_encoder(Enc).ob_len
    /\ UNCHANGED <<log, calls, tail, blob, bl>>

Send ==
    \E available \in BOOLEAN, fmt \in Formats, h \in Logs, type \in LogTypes,
       ra \in ReturnAddresses, dso \in Dsos :
        /\ Sent(loggy_os_log_send(Enc, fmt, h, type, ra, dso, available))
        /\ last' = [op |-> "send", pre_len |-> ob_len,
                    pre_cnt |-> hdr_cmd_cnt(ob_b), pre_flags |-> hdr_flags(ob_b),
                    size |-> 0, top |-> 0, sub |-> 0,
                    ev |-> Len(backend), avail |-> available, ra |-> ra]

Signpost ==
    \E fmt \in Formats, h \in Logs, spty \in SignpostTypes, spnm \in SignpostNames,
       spid \in SignpostIds, ra \in ReturnAddresses, dso \in Dsos :
        /\ Sent(loggy_os_signpost_send(Enc, fmt, h, spty, spnm, spid, ra, dso))
        /\ last' = [op |-> "signpost", pre_len |-> ob_len,
                    pre_cnt |-> hdr_cmd_cnt(ob_b), pre_flags |-> hdr_flags(ob_b),
                    size |-> 0, top |-> 0, sub |-> 0,
                    ev |-> Len(backend), avail |-> TRUE, ra |-> ra,
                    spty |-> spty, spnm |-> spnm, spid |-> spid]

NextSend ==
    \/ calls < MaxSendCalls /\ AddInt32
    \/ calls < MaxSendCalls /\ AddInt64
    \/ calls < MaxSendCalls /\ AddInt
    \/ calls < MaxSendCalls /\ AddDouble
    \/ calls < MaxSendCalls /\ AddObject
    \/ Send
    \/ Signpost

SpecSend == Init /\ [][NextSend]_vars

----------------------------------------------------------------------------
(* State machine of one blob: appends and queries, then its destruction *)

BlobSizes == {0, 1, 3, 4, 5}

BlobData(n) == [i \in 1 .. n |-> 64 + i]

InitBlob ==
    /\ ob_b = ZeroBuf
    /\ ob_len = 0
    /\ log = <<>>
    /\ last = [op |-> "none", pre_len |-> 0, pre_cnt |-> 0, pre_flags |-> 0,
               size |-> 0, top |-> 0, sub |-> 0,
               ev |-> 0, avail |-> FALSE, ra |-> "none"]
    /\ calls = 0
    /\ tail = 0
    /\ backend = <<>>
    /\ blob \in BlobConfigs
    /\ bl = NoBlobCall(blob)
    /\ pc = "running"

BlobAdd ==
    \E n \in BlobSizes :
        LET r == os_trace_blob_add(blob, BlobData(n), n)
        IN  /\ pc = "running"
            /\ ~bl.destroyed
            /\ bl.adds < MaxBlobAdds
            /\ IF BlobUndefined(r.ob)
               THEN pc' \in {"killed", "undefined"} /\ UNCHANGED blob
               ELSE pc' = "running" /\ blob' = r.ob
            /\ bl' = [bl EXCEPT !.op = "add", !.size = n, !.ret = r.ret,
                                !.path = r.path, !.pre = blob,
                                !.adds = @ + 1,
                                !.slow = @ + (IF r.path = "slow" THEN 1 ELSE 0),
                                !.total = @ + n]
            /\ UNCHANGED <<ob_b, ob_len, log, last, calls, tail, backend>>

BlobIsEmpty ==
    /\ pc = "running"
    /\ ~bl.destroyed
    /\ bl' = [bl EXCEPT !.op = "is_empty", !.pre = blob,
                        !.empty = os_trace_blob_is_empty(blob)]
    /\ UNCHANGED <<ob_b, ob_len, log, last, calls, tail, backend, blob, pc>>

BlobDestroy ==
    /\ pc = "running"
    /\ ~bl.destroyed
    /\ bl' = [bl EXCEPT !.op = "destroy", !.pre = blob, !.destroyed = TRUE,
                        !.released = os_trace_blob_destroy(blob).released]
    /\ UNCHANGED <<ob_b, ob_len, log, last, calls, tail, backend, blob, pc>>

NextBlob == BlobAdd \/ BlobIsEmpty \/ BlobDestroy

SpecBlob == InitBlob /\ [][NextBlob]_vars

----------------------------------------------------------------------------
(* Reading the command stream back: the records (tag, size, payload) that   *)
(* lie in [sizeof(header), ob_len), as os_log_fmt_cmd_s lays them out.      *)

Malformed == [type |-> 255, flags |-> 255, size |-> 0, payload |-> <<>>]

RECURSIVE ParseFrom(_, _, _)
ParseFrom(b, off, len) ==
    IF len > LOGGY_OS_LOG_ENCODER_BUF_SIZE THEN <<Malformed>>
    ELSE IF off >= len THEN <<>>
    ELSE IF off + SizeofCmd > len THEN <<Malformed>>
    ELSE LET tag == ByteAt(b, off)
             sz  == ByteAt(b, off + 1)
         IN  IF off + SizeofCmd + sz > len THEN <<Malformed>>
             ELSE <<[type    |-> tag \div 16,
                     flags   |-> tag % 16,
                     size    |-> sz,
                     payload |-> [i \in 1 .. sz |-> ByteAt(b, off + 1 + i)]]>>
                  \o ParseFrom(b, off + SizeofCmd + sz, len)

Stream == ParseFrom(ob_b, SizeofHdr, ob_len)

CommandCount == hdr_cmd_cnt(ob_b)

HasNonScalar(flags) == (flags \div OSLF_HDR_FLAG_HAS_NON_SCALAR) % 2 = 1

ScalarAdders == {"add_int32", "add_int64", "add_int", "add_double"}

Adders == ScalarAdders \cup {"add_object"}

----------------------------------------------------------------------------
(* Claims about the public adders, checked under Spec *)

\* C1: commandCount never exceeds MAX_COMMANDS (48), and an append on an
\* encoder that already holds 48 commands leaves commandCount at 48 and
\* ob_len as it was.
C1_CountNeverExceedsMax ==
    /\ CommandCount <= LOGGY_OS_LOG_ENCODER_MAX_COMMANDS
    /\ (last.op \in Adders /\ last.pre_cnt = LOGGY_OS_LOG_ENCODER_MAX_COMMANDS)
          => /\ CommandCount = LOGGY_OS_LOG_ENCODER_MAX_COMMANDS
             /\ ob_len = last.pre_len

\* C3: after at most MAX_COMMANDS commands appended to a fresh encoder,
\* commandCount is the number of commands appended and the bytes in
\* [2, ob_len) read back as exactly the appended (type, flags, size, payload)
\* tuples, in order.
C3_RoundTrip ==
    Len(log) <= LOGGY_OS_LOG_ENCODER_MAX_COMMANDS
        => /\ CommandCount = Len(log)
           /\ Stream = log

C3_Witness ==
    /\ Len(log) = LOGGY_OS_LOG_ENCODER_MAX_COMMANDS
    /\ \E i \in 1 .. Len(log) : log[i].type = OSLF_CMD_TYPE_OBJECT
    /\ \E i \in 1 .. Len(log) : log[i].size = SizeofInt32
    /\ Stream = log

\* C4 as stated: after add_object on any reachable encoder, the command
\* limit included, HAS_NON_SCALAR is set.
C4_ObjectAlwaysSetsFlag ==
    last.op = "add_object" => HasNonScalar(hdr_flags(ob_b))

\* C4 amended: add_object sets HAS_NON_SCALAR whenever its command is
\* appended; a rejected add_object leaves the header as it was.
C4_ObjectSetsFlagWhenAppended ==
    last.op = "add_object"
        => IF CommandCount = last.pre_cnt + 1
           THEN HasNonScalar(hdr_flags(ob_b))
           ELSE /\ CommandCount = last.pre_cnt
                /\ hdr_flags(ob_b) = last.pre_flags

C4_Witness ==
    /\ last.op = "add_object"
    /\ last.pre_cnt > 0
    /\ ~HasNonScalar(last.pre_flags)
    /\ CommandCount = last.pre_cnt + 1
    /\ HasNonScalar(hdr_flags(ob_b))

\* C5: HAS_NON_SCALAR is set only if the stream holds an OBJECT command; the
\* scalar adders leave the header flags byte unchanged; no append clears
\* the bit once it is set.
C5_OnlyObjectSetsFlag ==
    /\ HasNonScalar(hdr_flags(ob_b))
          => LET st == Stream
             IN  \E i \in 1 .. Len(st) : st[i].type = OSLF_CMD_TYPE_OBJECT
    /\ last.op \in ScalarAdders => hdr_flags(ob_b) = last.pre_flags
    /\ (last.op \in Adders /\ HasNonScalar(last.pre_flags))
          => HasNonScalar(hdr_flags(ob_b))

C5_Witness ==
    /\ last.op \in ScalarAdders
    /\ HasNonScalar(last.pre_flags)
    /\ CommandCount = last.pre_cnt + 1
    /\ HasNonScalar(hdr_flags(ob_b))

\* C6: each add_double call raises commandCount by 2 or by 0, never by 1:
\* a precision command is always followed by the value it qualifies.
C6_DoubleIsAtomic ==
    last.op = "add_double"
        => \/ CommandCount = last.pre_cnt
           \/ LET st == Stream
              IN  /\ CommandCount = last.pre_cnt + 2
                  /\ st[Len(st) - 1].size = SizeofInt
                  /\ st[Len(st)].size = SizeofDouble

----------------------------------------------------------------------------
(* Claims about encode itself, checked under SpecEncodeCmd and SpecEncode *)

C7_WithinBuffer ==
    /\ pc = "running"
    /\ ob_len <= LOGGY_OS_LOG_ENCODER_BUF_SIZE
    /\ last.top <= LOGGY_OS_LOG_ENCODER_BUF_SIZE
    /\ last.sub <= LOGGY_OS_LOG_ENCODER_BUF_SIZE

\* an accepted command whose payload ends on the last byte of the buffer
C7_Witness ==
    /\ last.op = "encode"
    /\ last.pre_len > 0
    /\ last.top = LOGGY_OS_LOG_ENCODER_BUF_SIZE
    /\ ob_len = LOGGY_OS_LOG_ENCODER_BUF_SIZE
    /\ CommandCount = last.pre_cnt + 1

----------------------------------------------------------------------------
(* Claims about loggy_os_log_send, checked under SpecSend *)

\* the backend calls made by the last call
LastEvents == SubSeq(backend, last.ev + 1, Len(backend))

CountOf(evs, fns) == Cardinality({i \in DOMAIN evs : evs[i].fn \in fns})

\* C8: each call of loggy_os_log_send makes exactly one transmission:
\* os_log_pack_send of a pack when the packed format is available, the legacy
\* _os_log_impl (format string, command-stream pointer, ob_len) when it is
\* not, never both and never neither; no adder calls a backend primitive.
C8_OneTransmissionPerSend ==
    /\ last.op = "send" =>
          /\ CountOf(LastEvents, Transmissions) = 1
          /\ IF last.avail
             THEN /\ LastEvents[Len(LastEvents)].fn = "os_log_pack_send"
                  /\ CountOf(LastEvents, {"_os_log_impl"}) = 0
             ELSE /\ Len(LastEvents) = 1
                  /\ LastEvents[1].fn = "_os_log_impl"
                  /\ LastEvents[1].len = ob_len
                  /\ LastEvents[1].buf = EncoderBytes(Enc, ob_len)
    /\ last.op \in Adders => Len(backend) = last.ev

\* both paths taken in one run, on an encoder that holds commands
C8_Witness ==
    /\ last.op = "send"
    /\ ~last.avail
    /\ ob_len > SizeofHdr
    /\ CountOf(backend, {"os_log_pack_send"}) = 1
    /\ CountOf(backend, {"_os_log_impl"}) = 1

\* C9: on the packed path the size is queried with ob_len, a buffer of
\* exactly that size is filled, the command bytes are copied to the cursor
\* fill returned, and then the pack is sent; the pack sent holds exactly
\* ob_b[0, ob_len) as payload and the caller's ra as return address.
C9_PackedPathOrder ==
    (last.op = "send" /\ last.avail) =>
        /\ Len(LastEvents) = 3
        /\ LastEvents[1].fn = "_os_log_pack_size"
        /\ LastEvents[1].n = ob_len
        /\ LastEvents[2].fn = "_os_log_pack_fill"
        /\ LastEvents[2].size = LastEvents[1].ret
        /\ LastEvents[3].fn = "os_log_pack_send"
        /\ LastEvents[3].pack.size = LastEvents[1].ret
        /\ LastEvents[3].pack.olp_data = EncoderBytes(Enc, ob_len)
        /\ LastEvents[3].pack.olp_pc = last.ra
        /\ LastEvents[3].pack.olp_pc # FillPc

C9_Witness ==
    /\ last.op = "send"
    /\ last.avail
    /\ CommandCount = 2
    /\ HasNonScalar(hdr_flags(ob_b))
    /\ LastEvents[3].pack.olp_data = EncoderBytes(Enc, ob_len)
    /\ Len(LastEvents[3].pack.olp_data) = ob_len

\* C10: an encoder no adder was called on keeps ob_len = 0, and sending it
\* hands the backend a command stream of length 0 on either path; once an
\* adder has been called, ob_len >= 2 in every later state.
C10_LazyHeader ==
    /\ calls = 0 =>
          /\ ob_len = 0
          /\ last.op = "send" =>
                IF last.avail
                THEN /\ LastEvents[1].n = 0
                     /\ LastEvents[Len(LastEvents)].pack.olp_data = <<>>
                ELSE /\ LastEvents[1].len = 0
                     /\ LastEvents[1].buf = <<>>
    /\ calls > 0 => ob_len >= SizeofHdr

\* the empty encoder sent on both paths, then appended to
C10_Witness ==
    /\ calls > 0
    /\ ob_len >= SizeofHdr
    /\ \E i \in DOMAIN backend : backend[i].fn = "_os_log_impl" /\ backend[i].len = 0
    /\ \E i \in DOMAIN backend : backend[i].fn = "_os_log_pack_size" /\ backend[i].n = 0

----------------------------------------------------------------------------
(* Claims about the blob, checked under SpecBlob *)

Truncated(ob) == HasBit(ob.ob_flags, OS_TRACE_BLOB_TRUNCATED)

NeedsFree(ob) == HasBit(ob.ob_flags, OS_TRACE_BLOB_NEEDS_FREE)

\* C11: truncation is sticky: on a blob whose TRUNCATED flag is set,
\* os_trace_blob_add of any size returns 0 without entering the slow path
\* and leaves ob_len, ob_size, ob_flags and the stored bytes unchanged, so
\* TRUNCATED stays set.
C11_TruncationSticky ==
    (bl.op = "add" /\ Truncated(bl.pre))
        => /\ bl.ret = 0
           /\ bl.path = "truncated"
           /\ blob = bl.pre
           /\ Truncated(blob)

C11_Witness ==
    /\ bl.op = "add"
    /\ Truncated(bl.pre)
    /\ bl.size > 0
    /\ bl.ret = 0
    /\ blob = bl.pre

\* C12 as stated: appends that total at most K bytes, on a binary or a
\* non-binary blob of inline capacity K, never enter the slow path and never
\* set NEEDS_FREE.
C12_UpToCapacityIsFast ==
    bl.total <= bl.k => (bl.slow = 0 /\ ~NeedsFree(blob))

\* C12 amended: appends that total at most K bytes on a binary blob, at most
\* K - 1 bytes on a non-binary one (a byte is kept for the terminator), never
\* enter the slow path and never set NEEDS_FREE.
C12_UpToAvailableIsFast ==
    bl.total <= bl.k - NotBinary(blob)
        => /\ bl.slow = 0
           /\ ~NeedsFree(blob)
           /\ blob.ob_at = "inline"
           /\ blob.ob_len = bl.total

C12_Witness ==
    /\ bl.op = "add"
    /\ bl.adds >= 2
    /\ bl.size > 0
    /\ ~blob.ob_binary
    /\ bl.total = bl.k - 1
    /\ bl.slow = 0

\* C13: an append on a blob that is not TRUNCATED, of a size that fits in the
\* available capacity, takes the fast path: it returns size, raises ob_len by
\* size and leaves ob_size and ob_flags unchanged; on a non-binary blob
\* ob_len + 1 <= ob_size holds afterwards and the byte at ob_len is NUL.
C13_FastPath ==
    bl.op = "add" =>
        /\ bl.path = "fast"
              <=> /\ ~Truncated(bl.pre)
                  /\ bl.size <= bl.pre.ob_size - NotBinary(bl.pre) - bl.pre.ob_len
        /\ bl.path = "fast" =>
              /\ bl.ret = bl.size
              /\ blob.ob_len = bl.pre.ob_len + bl.size
              /\ blob.ob_size = bl.pre.ob_size
              /\ blob.ob_flags = bl.pre.ob_flags
              /\ ~blob.ob_binary =>
                    /\ blob.ob_len + 1 <= blob.ob_size
                    /\ blob.ob_b[blob.ob_len] = 0

\* a non-binary blob filled by fast appends up to the byte of the terminator
C13_Witness ==
    /\ bl.op = "add"
    /\ bl.path = "fast"
    /\ bl.size > 0
    /\ ~blob.ob_binary
    /\ blob.ob_len + 1 = blob.ob_size
    /\ blob.ob_b[blob.ob_len] = 0

\* C14: os_trace_blob_destroy releases the buffer exactly when NEEDS_FREE is
\* set and never releases inline storage; os_trace_blob_is_empty is true
\* exactly when ob_len = 0.
C14_DestroyAndIsEmpty ==
    /\ bl.op = "destroy" =>
          /\ (bl.released # {}) <=> NeedsFree(blob)
          /\ "inline" \notin bl.released
          /\ blob.ob_at = "inline" => bl.released = {}
    /\ bl.op = "is_empty" => (bl.empty <=> blob.ob_len = 0)

\* a grown blob destroyed after a query found it not empty
C14_Witness ==
    /\ bl.op = "destroy"
    /\ bl.released = {"heap"}
    /\ ~bl.empty
    /\ blob.ob_len > 0

----------------------------------------------------------------------------
(* Claims about the stream as a whole, checked under Spec *)

RECURSIVE SumSizes(_)
SumSizes(st) ==
    IF st = <<>> THEN 0 ELSE SizeofCmd + Head(st).size + SumSizes(Tail(st))

\* C15: whenever ob_len > 0 the bytes in [2, ob_len) read back as exactly
\* commandCount consecutive records, each a 2-byte tag whose size byte is
\* the number of payload bytes after it, and ob_len = 2 + the sum over the
\* records of (2 + size).
C15_StreamAccounted ==
    ob_len > 0
        => LET st == Stream
           IN  /\ \A i \in 1 .. Len(st) :
                     /\ st[i] # Malformed
                     /\ Len(st[i].payload) = st[i].size
               /\ Len(st) = CommandCount
               /\ ob_len = SizeofHdr + SumSizes(st)

C15_Witness ==
    LET st == Stream
    IN  /\ CommandCount > LOGGY_OS_LOG_ENCODER_MAX_COMMANDS
        /\ Len(st) = CommandCount
        /\ \E i \in 1 .. Len(st) : st[i].size = SizeofInt32
        /\ \E i \in 1 .. Len(st) : st[i].size = SizeofDouble
        /\ ob_len = SizeofHdr + SumSizes(st)

\* the payload sizes the public adders pass to encode (lines 79-98)
PublicSizes ==
    {SizeofInt32, SizeofInt64, SizeofSizeT, SizeofInt, SizeofDouble, SizeofPtr}

MaxPublicSize == CHOOSE s \in PublicSizes : \A t \in PublicSizes : t <= s

\* C16: with the public adders alone the capacity test of line 56 never
\* rejects: ob_len is at most 2 + 10 * commandCount, which is far below the
\* buffer size for every reachable commandCount, the capacity test is false
\* for whatever adder is called next, and a call that appends nothing was
\* rejected by the command-count test.
C16_CapacityNeverRejects ==
    /\ ob_len <= SizeofHdr + (SizeofCmd + MaxPublicSize) * CommandCount
    /\ SizeofHdr + (SizeofCmd + MaxPublicSize) * CommandCount
          <= LOGGY_OS_LOG_ENCODER_BUF_SIZE - (SizeofCmd + MaxPublicSize)
    /\ \A size \in PublicSizes : ~avail_lt(encode_sub(Enc), SizeofCmd + size)
    /\ (last.op \in Adders /\ ob_len = last.pre_len)
          => /\ last.pre_cnt > LOGGY_OS_LOG_ENCODER_MAX_COMMANDS
             /\ ~avail_lt(last.sub, SizeofCmd + MaxPublicSize)

C16_Witness ==
    /\ last.op \in Adders
    /\ ob_len = last.pre_len
    /\ CommandCount = last.pre_cnt
    /\ last.pre_cnt > LOGGY_OS_LOG_ENCODER_MAX_COMMANDS
    /\ ~avail_lt(last.sub, SizeofCmd + last.size)
    /\ ob_len > SizeofHdr + (SizeofCmd + SizeofInt32) * CommandCount

\* the commands in the buffer are the first ones of those requested
StreamIsPrefixOfLog ==
    LET st == Stream
    IN  /\ Len(st) <= Len(log)
        /\ st = SubSeq(log, 1, Len(st))

\* one call: the bytes of the stream written so far stay as they are, and
\* once a requested command is missing nothing more is written
StreamOnlyGrows ==
    /\ ob_len' >= ob_len
    /\ \A i \in SizeofHdr .. ob_len - 1 : ByteAt(ob_b', i) = ByteAt(ob_b, i)
    /\ CommandCount < Len(log) => (ob_len' = ob_len /\ ob_b' = ob_b)

\* C17: for any sequence of public adder calls the commands in the buffer
\* are exactly a prefix of the commands requested: once one command has
\* been dropped every later one is dropped too, and no call modifies or
\* reorders the commands already written.
C17_DropsOnlyATail ==
    /\ [](StreamIsPrefixOfLog)
    /\ [][StreamOnlyGrows]_vars

C17_Witness ==
    /\ last.op \in Adders
    /\ CommandCount > 0
    /\ Len(log) >= CommandCount + 2
    /\ ob_len = last.pre_len
    /\ StreamIsPrefixOfLog
    /\ \E i \in 1 .. CommandCount : log[i].size # log[1].size

----------------------------------------------------------------------------
(* Claims about both sends, checked under SpecSend *)

SendOps == {"send", "signpost"}

AllTransmissions == Transmissions \cup {"_os_signpost_pack_send"}

\* the command bytes a transmission hands to the backend
Payload(e) == IF e.fn = "_os_log_impl" THEN e.buf ELSE e.pack.olp_data

Transmitted == {i \in DOMAIN backend : backend[i].fn \in AllTransmissions}

\* every stream transmitted so far is the beginning of the encoder's stream
SentStreamsAreExtended ==
    \A i \in Transmitted :
        LET p == Payload(backend[i])
        IN  /\ Len(p) <= ob_len
            /\ \A k \in SizeofHdr + 1 .. Len(p) : p[k] = ByteAt(ob_b, k - 1)

\* one step that is a send: the encoder is as it was, and a send that comes
\* straight after a send transmits the same bytes
SendLeavesEncoder ==
    Len(backend') > Len(backend)
        => /\ last'.op \in SendOps
           /\ ob_len' = ob_len
           /\ ob_b' = ob_b
           /\ Payload(backend'[Len(backend')]) = EncoderBytes(Enc, ob_len)
           /\ last.op \in SendOps
                 => Payload(backend'[Len(backend')]) = Payload(backend[Len(backend)])

\* C18: loggy_os_log_send and loggy_os_signpost_send leave ob_len and every
\* byte of ob_b as they were, so sending the same encoder twice transmits
\* the same command stream both times, and appends made after a send extend
\* the stream that was sent.
C18_SendsLeaveEncoder ==
    /\ [](SentStreamsAreExtended)
    /\ [][SendLeavesEncoder]_vars

\* a log send and a signpost send of the same commands, then an append
C18_Witness ==
    /\ last.op \in Adders
    /\ ob_len > last.pre_len
    /\ Len(backend) > 0
    /\ \E i, j \in Transmitted :
          /\ backend[i].fn \in Transmissions
          /\ backend[j].fn = "_os_signpost_pack_send"
          /\ Len(Payload(backend[i])) > SizeofHdr
          /\ Len(Payload(backend[i])) < ob_len
          /\ Payload(backend[i]) = Payload(backend[j])
    /\ SentStreamsAreExtended

\* C19: loggy_os_signpost_send has the shape of the packed path of
\* loggy_os_log_send: it queries the size with ob_len, fills a pack of that
\* size passing the caller's signpost name and id through unchanged, stores
\* ra in olp_pc, copies exactly the ob_len bytes ob_b[0, ob_len), and makes
\* exactly one signpost send; it never calls os_log_pack_send or the legacy
\* _os_log_impl.
C19_SignpostShape ==
    last.op = "signpost" =>
        LET ev  == LastEvents
            ref == send_packed(Enc, ev[2].fmt, ev[3].h, ev[3].spty, last.ra, ev[2].dso)
        IN  /\ Len(ev) = 3
            /\ ev[1].fn = "_os_log_pack_size"
            /\ ev[1].n = ob_len
            /\ ev[1] = ref[1]
            /\ ev[2].fn = "_os_signpost_pack_fill"
            /\ ev[2].size = ev[1].ret
            /\ ev[2].errno = ref[2].errno
            /\ ev[2].spnm = last.spnm
            /\ ev[2].spid = last.spid
            /\ ev[3].fn = "_os_signpost_pack_send"
            /\ ev[3].spty = last.spty
            /\ ev[3].pack.size = ref[3].pack.size
            /\ ev[3].pack.spnm = last.spnm
            /\ ev[3].pack.spid = last.spid
            /\ ev[3].pack.olp_pc = last.ra
            /\ ev[3].pack.olp_pc # FillPc
            /\ Len(ev[3].pack.olp_data) = ob_len
            /\ ev[3].pack.olp_data = EncoderBytes(Enc, ob_len)
            /\ ev[3].pack.olp_data = ref[3].pack.olp_data
            /\ CountOf(ev, {"_os_signpost_pack_send"}) = 1
            /\ CountOf(ev, Transmissions) = 0

C19_Witness ==
    /\ last.op = "signpost"
    /\ last.spid = 7
    /\ CommandCount = 2
    /\ HasNonScalar(hdr_flags(ob_b))
    /\ LastEvents[2].spid = 7
    /\ LastEvents[3].pack.olp_data = EncoderBytes(Enc, ob_len)
    /\ CountOf(backend, {"_os_signpost_pack_send"}) = 2

============================================================================
